---- MODULE Spec2Model ----
(***************************************************************************)
(* DeviceRegistry (main/device_registry.h, device_registry.cc): the        *)
(* persisted profile list, the session map and the preferred session id.  *)
(* Every public operation runs under the registry mutex and is one action; *)
(* SpecThreads splits the operations into the steps two threads interleave.*)
(* std::string values are sequences of characters; a character is a        *)
(* one-letter string and NUL stands for the byte '\0'.                     *)
(***************************************************************************)
EXTENDS Integers, Sequences, FiniteSets, TLC

VARIABLES profiles_, sessions_, preferred_session_id_, settings, last,
          mutex_, call, committed

vars == <<profiles_, sessions_, preferred_session_id_, settings, last,
          mutex_, call, committed>>

\* ------------------------------------------------------------------ bounds
MaxProfiles == 2
MaxList == 2

\* ----------------------------------------------------------------- strings
NUL == "NUL"
EmptyString == <<>>

\* std::toupper in the "C" locale, on the characters the model uses
ToUpper(ch) ==
    CASE ch = "a" -> "A"
      [] ch = "b" -> "B"
      [] ch = "c" -> "C"
      [] OTHER -> ch

\* std::string::c_str() read as a C string: the bytes before the first NUL
CStr(s) ==
    LET nuls == {i \in 1..Len(s) : s[i] = NUL}
    IN  IF nuls = {} THEN s
        ELSE SubSeq(s, 1, (CHOOSE i \in nuls : \A j \in nuls : i <= j) - 1)

\* character codes, for std::string::operator<
Code(ch) ==
    CASE ch = NUL -> 0
      [] ch = "-" -> 45
      [] ch = ":" -> 58
      [] ch = "A" -> 65
      [] ch = "B" -> 66
      [] ch = "C" -> 67
      [] ch = "D" -> 68
      [] ch = "L" -> 76
      [] ch = "a" -> 97
      [] ch = "b" -> 98
      [] ch = "c" -> 99
      [] ch = "d" -> 100
      [] ch = "e" -> 101
      [] ch = "u" -> 117
      [] ch = "x" -> 120

\* lhs < rhs for std::string (lexicographic on the bytes)
StringLess(lhs, rhs) ==
    \E k \in 0..Len(lhs) :
        /\ k <= Len(rhs)
        /\ \A i \in 1..k : lhs[i] = rhs[i]
        /\ \/ (k = Len(lhs) /\ k < Len(rhs))
           \/ (k < Len(lhs) /\ k < Len(rhs) /\ Code(lhs[k + 1]) < Code(rhs[k + 1]))

\* std::unordered_map, as a function from its keys: the empty map
EmptyMap == << >>

\* std::optional
nullopt == {}
Some(x) == {x}

\* ------------------------------------------------------- profile helpers
NormalizeMacAddress(mac_address) ==
    LET kept == SelectSeq(mac_address, LAMBDA ch : ~(ch = ":" \/ ch = "-"))
    IN  [i \in 1..Len(kept) |-> ToUpper(kept[i])]

NormalizeProfile(profile) ==
    [profile EXCEPT !.mac_address = NormalizeMacAddress(profile.mac_address)]

NormalizeMac(mac_address) == NormalizeMacAddress(mac_address)

\* a default-constructed DeviceProfile
DefaultProfile ==
    [device_id |-> EmptyString, mac_address |-> EmptyString, label |-> EmptyString,
     description |-> EmptyString, transport_hint |-> EmptyString,
     allow_audio |-> TRUE, allow_notifications |-> TRUE, is_primary |-> FALSE]

\* cJSON items: a string item holds a C string, a bool item a boolean
JsonString(s) == [type |-> "string", valuestring |-> CStr(s)]
JsonBool(b) == [type |-> "bool", value |-> b]

SerializeProfile(profile) ==
    [device_id |-> JsonString(profile.device_id),
     mac |-> JsonString(profile.mac_address),
     label |-> JsonString(profile.label),
     description |-> JsonString(profile.description),
     transport_hint |-> JsonString(profile.transport_hint),
     allow_audio |-> JsonBool(profile.allow_audio),
     allow_notifications |-> JsonBool(profile.allow_notifications),
     is_primary |-> JsonBool(profile.is_primary)]

\* cJSON_GetObjectItem + cJSON_IsString: the string under key, else the default
StringItem(node, key, default) ==
    IF key \in DOMAIN node /\ node[key].type = "string"
    THEN node[key].valuestring ELSE default

BoolItem(node, key, default) ==
    IF key \in DOMAIN node /\ node[key].type = "bool"
    THEN node[key].value ELSE default

ParseProfile(node) ==
    NormalizeProfile(
        [device_id |-> StringItem(node, "device_id", DefaultProfile.device_id),
         mac_address |-> StringItem(node, "mac", DefaultProfile.mac_address),
         label |-> StringItem(node, "label", DefaultProfile.label),
         description |-> StringItem(node, "description", DefaultProfile.description),
         transport_hint |-> StringItem(node, "transport_hint", DefaultProfile.transport_hint),
         allow_audio |-> BoolItem(node, "allow_audio", DefaultProfile.allow_audio),
         allow_notifications |->
             BoolItem(node, "allow_notifications", DefaultProfile.allow_notifications),
         is_primary |-> BoolItem(node, "is_primary", DefaultProfile.is_primary)])

\* -------------------------------------------------------------- settings
\* The value stored under a key of namespace "devices": no value (key
\* absent), a plain string, or the text of a JSON array of objects.
Absent == [kind |-> "absent"]
PlainString(s) == [kind |-> "string", value |-> s]
JsonArrayText(items) == [kind |-> "json", root |-> items]

\* Settings::GetString(kProfilesKey, "") followed by the parse of the text
LoadProfilesLocked(st) ==
    LET json == st.profiles
    IN  IF json.kind = "json"
        THEN [i \in 1..Len(json.root) |-> ParseProfile(json.root[i])]
        ELSE <<>>

PersistProfilesLocked(st, profiles) ==
    [st EXCEPT !.profiles =
        JsonArrayText([i \in 1..Len(profiles) |-> SerializeProfile(profiles[i])])]

\* Settings::GetString(kPreferredSessionKey, "")
LoadPreferredSession(st) ==
    IF st.preferred_session.kind = "string" THEN st.preferred_session.value
    ELSE EmptyString

\* variant of PersistPreferredSessionLocked that never erases the key
PersistPreferredNeverErased(st, preferred_session_id) ==
    IF preferred_session_id = EmptyString THEN st
    ELSE [st EXCEPT !.preferred_session = PlainString(preferred_session_id)]

PersistPreferredSessionLocked(st, preferred_session_id) ==
    IF preferred_session_id = EmptyString
    THEN [st EXCEPT !.preferred_session = Absent]
    ELSE [st EXCEPT !.preferred_session = PlainString(preferred_session_id)]

\* ------------------------------------------------------ profile operations
\* the matching lambda of AddOrUpdateProfile
predicate(normalized, candidate) ==
    IF normalized.mac_address # EmptyString /\ candidate.mac_address # EmptyString
    THEN normalized.mac_address = candidate.mac_address
    ELSE IF normalized.device_id # EmptyString /\ candidate.device_id # EmptyString
         THEN normalized.device_id = candidate.device_id
         ELSE FALSE

\* std::find_if: the first index whose element satisfies P, Len + 1 for end()
find_if(list, P(_)) ==
    LET hits == {i \in 1..Len(list) : P(list[i])}
    IN  IF hits = {} THEN Len(list) + 1
        ELSE CHOOSE i \in hits : \A j \in hits : i <= j

\* erase(remove_if(...)): the elements that do not satisfy P, in order
remove_if(list, P(_)) == SelectSeq(list, LAMBDA e : ~P(e))

\* variant of Upsert that never looks for an existing entry
UpsertAlwaysAppend(profiles, profile) == Append(profiles, NormalizeProfile(profile))

\* the profile list AddOrUpdateProfile leaves
Upsert(profiles, profile) ==
    LET normalized == NormalizeProfile(profile)
        it == find_if(profiles, LAMBDA candidate : predicate(normalized, candidate))
    IN  IF it # Len(profiles) + 1
        THEN [profiles EXCEPT ![it] = normalized]
        ELSE Append(profiles, normalized)

\* variant of RemoveByMac that compares the MAC as given, not normalized
RemoveByMacAsGiven(profiles, mac_address) ==
    remove_if(profiles, LAMBDA profile : profile.mac_address = mac_address)

RemoveByMac(profiles, mac_address) ==
    LET normalized_mac == NormalizeMac(mac_address)
    IN  remove_if(profiles, LAMBDA profile : profile.mac_address = normalized_mac)

RemoveById(profiles, device_id) ==
    remove_if(profiles, LAMBDA profile : profile.device_id = device_id)

GetProfiles == profiles_

GetProfileByMac(mac_address) ==
    LET normalized_mac == NormalizeMac(mac_address)
        it == find_if(profiles_, LAMBDA profile : profile.mac_address = normalized_mac)
    IN  IF it = Len(profiles_) + 1 THEN nullopt ELSE Some(profiles_[it])

\* variant of GetProfileById that returns the last match instead of the first
GetProfileByIdLastMatch(device_id) ==
    LET hits == {i \in 1..Len(profiles_) : profiles_[i].device_id = device_id}
    IN  IF hits = {} THEN nullopt
        ELSE Some(profiles_[CHOOSE i \in hits : \A j \in hits : j <= i])

GetProfileById(device_id) ==
    LET it == find_if(profiles_, LAMBDA profile : profile.device_id = device_id)
    IN  IF it = Len(profiles_) + 1 THEN nullopt ELSE Some(profiles_[it])

\* ------------------------------------------------------------ input sets
MacInputs == { EmptyString, <<"-">>, <<"a", ":", "b">>, <<"A", "B">>, <<"c">> }
DeviceIdInputs == { EmptyString, <<"d">>, <<"e">> }

\* the remaining fields vary together: the defaults, or every one changed
PayloadInputs ==
    { [label |-> EmptyString, description |-> EmptyString, transport_hint |-> EmptyString,
       allow_audio |-> TRUE, allow_notifications |-> TRUE, is_primary |-> FALSE],
      [label |-> <<"L", NUL, "x">>, description |-> <<"D">>, transport_hint |-> <<"u">>,
       allow_audio |-> FALSE, allow_notifications |-> FALSE, is_primary |-> TRUE] }

ProfileInputs ==
    { [device_id |-> d, mac_address |-> m, label |-> p.label,
       description |-> p.description, transport_hint |-> p.transport_hint,
       allow_audio |-> p.allow_audio, allow_notifications |-> p.allow_notifications,
       is_primary |-> p.is_primary] :
      d \in DeviceIdInputs, m \in MacInputs, p \in PayloadInputs }

\* ----------------------------------------------------------------- threads
\* The callers of the registry, the holder of mutex_, and per thread the
\* call it is in: the operation, its argument, the position in its body,
\* its locals and its return value.  committed is the registry state at the
\* latest release of mutex_.
Threads == { "transport", "ui" }
NoThread == "none"
Idle == [op |-> "idle", pc |-> "idle"]

\* an operation run as one step: the mutex is taken and released within it
Released ==
    /\ UNCHANGED <<mutex_, call>>
    /\ committed' = <<profiles_', sessions_', preferred_session_id_'>>

\* ------------------------------------------------------------------ Init
\* The constructor on a device whose "profiles" key was never written; the
\* "preferred_session" key holds whatever an earlier run left there.
PersistedPreferredInputs == { Absent, PlainString(<<"a">>) }

Init ==
    /\ \E p \in PersistedPreferredInputs :
           settings = [profiles |-> Absent, preferred_session |-> p]
    /\ profiles_ = LoadProfilesLocked(settings)
    /\ preferred_session_id_ = LoadPreferredSession(settings)
    /\ sessions_ = EmptyMap
    /\ last = [op |-> "DeviceRegistry"]
    /\ mutex_ = NoThread
    /\ call = [t \in Threads |-> Idle]
    /\ committed = <<profiles_, sessions_, preferred_session_id_>>

\* ------------------------------------------------------- profile actions
\* last records the latest call: its name, argument, return value and the
\* calls it made on the persistence collaborator, in order.
SetStringCall(key) == [fn |-> "SetString", key |-> key]
EraseKeyCall(key) == [fn |-> "EraseKey", key |-> key]

AddOrUpdateProfile(profile) ==
    /\ Len(Upsert(profiles_, profile)) <= MaxProfiles
    /\ profiles_' = Upsert(profiles_, profile)
    /\ settings' = PersistProfilesLocked(settings, profiles_')
    /\ last' = [op |-> "AddOrUpdateProfile", arg |-> profile, ret |-> TRUE,
                writes |-> <<SetStringCall("profiles")>>,
                again |-> (last.op = "AddOrUpdateProfile" /\ last.arg = profile)]
    /\ UNCHANGED <<sessions_, preferred_session_id_>>
    /\ Released

\* variant of RemoveProfileByMac that persists also when nothing was erased
RemoveProfileByMacAlwaysPersisting(mac_address) ==
    LET erased == RemoveByMac(profiles_, mac_address)
        after_add == last.op = "AddOrUpdateProfile" /\ last.arg.mac_address = mac_address
    IN  /\ profiles_' = erased
        /\ settings' = PersistProfilesLocked(settings, erased)
        /\ last' = [op |-> "RemoveProfileByMac", arg |-> mac_address,
                    ret |-> (Len(erased) # Len(profiles_)),
                    writes |-> <<SetStringCall("profiles")>>, after_add |-> after_add]
        /\ UNCHANGED <<sessions_, preferred_session_id_>>
        /\ Released

RemoveProfileByMac(mac_address) ==
    LET erased == RemoveByMac(profiles_, mac_address)
        after_add == last.op = "AddOrUpdateProfile" /\ last.arg.mac_address = mac_address
    IN  /\ profiles_' = erased
        /\ IF Len(erased) = Len(profiles_)
           THEN /\ settings' = settings
                /\ last' = [op |-> "RemoveProfileByMac", arg |-> mac_address,
                            ret |-> FALSE, writes |-> <<>>, after_add |-> after_add]
           ELSE /\ settings' = PersistProfilesLocked(settings, erased)
                /\ last' = [op |-> "RemoveProfileByMac", arg |-> mac_address,
                            ret |-> TRUE, writes |-> <<SetStringCall("profiles")>>,
                            after_add |-> after_add]
        /\ UNCHANGED <<sessions_, preferred_session_id_>>
        /\ Released

RemoveProfileById(device_id) ==
    LET erased == RemoveById(profiles_, device_id)
    IN  /\ profiles_' = erased
        /\ IF Len(erased) = Len(profiles_)
           THEN /\ settings' = settings
                /\ last' = [op |-> "RemoveProfileById", arg |-> device_id,
                            ret |-> FALSE, writes |-> <<>>]
           ELSE /\ settings' = PersistProfilesLocked(settings, erased)
                /\ last' = [op |-> "RemoveProfileById", arg |-> device_id,
                            ret |-> TRUE, writes |-> <<SetStringCall("profiles")>>]
        /\ UNCHANGED <<sessions_, preferred_session_id_>>
        /\ Released

NextProfiles ==
    \/ \E profile \in ProfileInputs : AddOrUpdateProfile(profile)
    \/ \E mac_address \in MacInputs : RemoveProfileByMac(mac_address)
    \/ \E device_id \in DeviceIdInputs : RemoveProfileById(device_id)

SpecProfiles == Init /\ [][NextProfiles]_vars

\* ------------------------------------------------------ session operations
\* sessions_ is a function from the stored session ids to their SessionInfo.

\* variant of clear that keeps the entries
clearSkipped(map) == map

\* std::unordered_map::clear
clear(map) == EmptyMap

\* variant of emplace that overwrites a present key (insert_or_assign)
emplaceOrAssign(map, session) ==
    [id \in DOMAIN map \cup {session.session_id} |->
        IF id = session.session_id THEN session ELSE map[id]]

\* std::unordered_map::emplace: inserts only when the key is not yet present
emplace(map, session) ==
    IF session.session_id \in DOMAIN map THEN map
    ELSE [id \in DOMAIN map \cup {session.session_id} |->
            IF id = session.session_id THEN session ELSE map[id]]

\* variant of Ingest that does not skip the entries with an empty session_id
RECURSIVE IngestKeepingEmptyIds(_, _, _)
IngestKeepingEmptyIds(sessions, map, detected_active) ==
    IF sessions = <<>> THEN [sessions_ |-> map, detected_active |-> detected_active]
    ELSE LET session == Head(sessions)
         IN  IngestKeepingEmptyIds(Tail(sessions), emplace(map, session),
                                   IF session.is_active /\ detected_active = EmptyString
                                   THEN session.session_id ELSE detected_active)

\* the loop of UpdateSessions over the submitted list, from the cleared map
RECURSIVE Ingest(_, _, _)
Ingest(sessions, map, detected_active) ==
    IF sessions = <<>> THEN [sessions_ |-> map, detected_active |-> detected_active]
    ELSE LET session == Head(sessions)
         IN  IF session.session_id = EmptyString
             THEN Ingest(Tail(sessions), map, detected_active)
             ELSE Ingest(Tail(sessions), emplace(map, session),
                         IF session.is_active /\ detected_active = EmptyString
                         THEN session.session_id ELSE detected_active)

\* variant of ValidatePreferred that keeps a preferred id whatever the map holds
ValidatePreferredSkipped(preferred_session_id, map) == preferred_session_id

\* variant of ValidatePreferred that clears the preferred id on every update
ValidatePreferredAlwaysCleared(preferred_session_id, map) == EmptyString

\* the validity check: a preferred id that is not a key of the new map is cleared
ValidatePreferred(preferred_session_id, map) ==
    IF preferred_session_id # EmptyString /\ preferred_session_id \notin DOMAIN map
    THEN EmptyString ELSE preferred_session_id

\* variant of SelectPreferred that ignores the detected active session
SelectPreferredFrontOnly(detected_active, sessions) ==
    IF sessions = <<>> THEN EmptyString ELSE Head(sessions).session_id

\* variant of SelectPreferred without the fallback to the first entry
SelectPreferredActiveOnly(detected_active, sessions) == detected_active

\* the value assigned to an empty preferred id
SelectPreferred(detected_active, sessions) ==
    IF detected_active # EmptyString THEN detected_active
    ELSE IF sessions = <<>> THEN EmptyString ELSE Head(sessions).session_id

\* variant of RecomputePreferred that leaves the flags as stored
RecomputePreferredSkipped(map, preferred_session_id) == map

\* the loop that recomputes is_preferred on every stored session
RecomputePreferred(map, preferred_session_id) ==
    [id \in DOMAIN map |-> [map[id] EXCEPT !.is_preferred = (id = preferred_session_id)]]

\* variant of SessionLess without the is_active level
SessionLessIgnoringActive(lhs, rhs) ==
    IF lhs.is_preferred # rhs.is_preferred THEN lhs.is_preferred /\ ~rhs.is_preferred
    ELSE StringLess(lhs.session_id, rhs.session_id)

\* the comparator of GetSessions
SessionLess(lhs, rhs) ==
    IF lhs.is_preferred # rhs.is_preferred THEN lhs.is_preferred /\ ~rhs.is_preferred
    ELSE IF lhs.is_active # rhs.is_active THEN lhs.is_active /\ ~rhs.is_active
    ELSE StringLess(lhs.session_id, rhs.session_id)

\* std::sort of a set of sessions with pairwise distinct ids
RECURSIVE Sort(_)
Sort(infos) ==
    IF infos = {} THEN <<>>
    ELSE LET first == CHOOSE lhs \in infos : \A rhs \in infos \ {lhs} : SessionLess(lhs, rhs)
         IN  <<first>> \o Sort(infos \ {first})

\* The vector GetSessions fills before sorting: the stored sessions in the
\* iteration order of the unordered_map, which is unspecified.
RECURSIVE Orders(_)
Orders(ids) ==
    IF ids = {} THEN { <<>> }
    ELSE UNION { { <<id>> \o rest : rest \in Orders(ids \ {id}) } : id \in ids }

IterationOrders == { [i \in 1..Len(order) |-> sessions_[order[i]]] : order \in Orders(DOMAIN sessions_) }

\* std::sort of that vector with the comparator, as an insertion sort
RECURSIVE Insert(_, _)
Insert(sorted, info) ==
    IF sorted = <<>> THEN <<info>>
    ELSE IF SessionLess(info, Head(sorted)) THEN <<info>> \o sorted
    ELSE <<Head(sorted)>> \o Insert(Tail(sorted), info)

RECURSIVE SortVector(_)
SortVector(sessions) ==
    IF sessions = <<>> THEN <<>>
    ELSE Insert(SortVector(Tail(sessions)), Head(sessions))

GetSessions == Sort({sessions_[id] : id \in DOMAIN sessions_})

\* The results GetActiveSession can return: the iteration order of the
\* unordered_map is unspecified, so the fallbacks may yield any candidate.
GetActiveSession ==
    IF preferred_session_id_ # EmptyString /\ preferred_session_id_ \in DOMAIN sessions_
    THEN { Some(sessions_[preferred_session_id_]) }
    ELSE IF \E id \in DOMAIN sessions_ : sessions_[id].is_active
    THEN { Some(sessions_[id]) : id \in {i \in DOMAIN sessions_ : sessions_[i].is_active} }
    ELSE IF DOMAIN sessions_ # {}
    THEN { Some(sessions_[id]) : id \in DOMAIN sessions_ }
    ELSE { nullopt }

FindSession(session_id) ==
    IF session_id \notin DOMAIN sessions_ THEN nullopt ELSE Some(sessions_[session_id])

\* ------------------------------------------------------- session inputs
SessionIdInputs == { EmptyString, <<"a">>, <<"b">> }

\* the fields other than session_id, in three combinations
SessionFieldInputs ==
    { [device_id |-> <<"d">>, label |-> <<"L">>, transport |-> <<"u">>,
       supports_udp |-> TRUE, supports_mcp |-> FALSE,
       is_active |-> FALSE, is_preferred |-> FALSE],
      [device_id |-> <<"e">>, label |-> EmptyString, transport |-> EmptyString,
       supports_udp |-> FALSE, supports_mcp |-> TRUE,
       is_active |-> TRUE, is_preferred |-> TRUE],
      [device_id |-> <<"e">>, label |-> EmptyString, transport |-> EmptyString,
       supports_udp |-> FALSE, supports_mcp |-> TRUE,
       is_active |-> FALSE, is_preferred |-> TRUE] }

SessionInputs ==
    { [session_id |-> id, device_id |-> f.device_id, label |-> f.label,
       transport |-> f.transport, supports_udp |-> f.supports_udp,
       supports_mcp |-> f.supports_mcp, is_active |-> f.is_active,
       is_preferred |-> f.is_preferred] :
      id \in SessionIdInputs, f \in SessionFieldInputs }

RECURSIVE ListsUpTo(_)
ListsUpTo(n) ==
    IF n = 0 THEN { <<>> }
    ELSE LET shorter == ListsUpTo(n - 1)
         IN  shorter \cup { Append(l, s) : l \in {x \in shorter : Len(x) = n - 1},
                                           s \in SessionInputs }

SessionListInputs == ListsUpTo(MaxList)

\* ------------------------------------------------------- session actions
UpdateSessions(sessions) ==
    LET ingested == Ingest(sessions, clear(sessions_), EmptyString)
        detected_active == ingested.detected_active
        validated == ValidatePreferred(preferred_session_id_, ingested.sessions_)
        cleared == validated # preferred_session_id_
        selected == IF validated = EmptyString
                    THEN SelectPreferred(detected_active, sessions) ELSE validated
        assigned == validated = EmptyString /\ selected # EmptyString
        afterClear == IF cleared THEN PersistPreferredSessionLocked(settings, validated)
                      ELSE settings
    IN  /\ preferred_session_id_' = selected
        /\ sessions_' = RecomputePreferred(ingested.sessions_, selected)
        /\ settings' = IF assigned THEN PersistPreferredSessionLocked(afterClear, selected)
                       ELSE afterClear
        /\ last' = [op |-> "UpdateSessions", arg |-> sessions, ret |-> TRUE,
                    before |-> preferred_session_id_, before_ids |-> DOMAIN sessions_,
                    writes |-> (IF cleared THEN <<EraseKeyCall("preferred_session")>> ELSE <<>>)
                               \o (IF assigned THEN <<SetStringCall("preferred_session")>>
                                   ELSE <<>>)]
        /\ UNCHANGED profiles_
        /\ Released

\* variant of SetPreferredSession that assigns the preferred id before the lookup
SetPreferredSessionAssignFirst(session_id) ==
    /\ preferred_session_id_' = session_id
    /\ IF session_id \notin DOMAIN sessions_
       THEN /\ last' = [op |-> "SetPreferredSession", arg |-> session_id, ret |-> FALSE,
                        before |-> preferred_session_id_, writes |-> <<>>]
            /\ UNCHANGED <<profiles_, sessions_, settings>>
            /\ Released
       ELSE /\ sessions_' = RecomputePreferred(sessions_, session_id)
            /\ settings' = PersistPreferredSessionLocked(settings, session_id)
            /\ last' = [op |-> "SetPreferredSession", arg |-> session_id, ret |-> TRUE,
                        before |-> preferred_session_id_,
                        writes |-> <<IF session_id = EmptyString
                                     THEN EraseKeyCall("preferred_session")
                                     ELSE SetStringCall("preferred_session")>>]
            /\ UNCHANGED profiles_
            /\ Released

SetPreferredSession(session_id) ==
    IF session_id \notin DOMAIN sessions_
    THEN /\ last' = [op |-> "SetPreferredSession", arg |-> session_id, ret |-> FALSE,
                     before |-> preferred_session_id_, writes |-> <<>>]
         /\ UNCHANGED <<profiles_, sessions_, preferred_session_id_, settings>>
         /\ Released
    ELSE /\ preferred_session_id_' = session_id
         /\ sessions_' = RecomputePreferred(sessions_, session_id)
         /\ settings' = PersistPreferredSessionLocked(settings, session_id)
         /\ last' = [op |-> "SetPreferredSession", arg |-> session_id, ret |-> TRUE,
                     before |-> preferred_session_id_,
                     writes |-> <<IF session_id = EmptyString
                                  THEN EraseKeyCall("preferred_session")
                                  ELSE SetStringCall("preferred_session")>>]
         /\ UNCHANGED profiles_
         /\ Released

NextSessions ==
    \/ \E sessions \in SessionListInputs : UpdateSessions(sessions)
    \/ \E session_id \in SessionIdInputs : SetPreferredSession(session_id)

SpecSessions == Init /\ [][NextSessions]_vars

\* Profile and session calls in one run, on fewer inputs: the profiles with
\* default fields, one MAC address and one device_id or none, and the
\* session lists of at most one entry.
FewProfileInputs ==
    { profile \in ProfileInputs :
        /\ profile.mac_address \in {EmptyString, <<"A", "B">>}
        /\ profile.device_id \in {EmptyString, <<"d">>}
        /\ profile.label = EmptyString }

FewSessionListInputs == ListsUpTo(1)

NextRegistry ==
    \/ \E profile \in FewProfileInputs : AddOrUpdateProfile(profile)
    \/ \E mac_address \in MacInputs : RemoveProfileByMac(mac_address)
    \/ \E device_id \in DeviceIdInputs : RemoveProfileById(device_id)
    \/ \E sessions \in FewSessionListInputs : UpdateSessions(sessions)
    \/ \E session_id \in SessionIdInputs : SetPreferredSession(session_id)

SpecRegistry == Init /\ [][NextRegistry]_vars

\* Session calls on lists of up to MaxSortList entries over four entries:
\* three ids, one of them active, and an entry without id; three sessions
\* can be stored at a time.
MaxSortList == 3

SortSessionInputs ==
    { [session_id |-> e[1], device_id |-> <<"d">>, label |-> <<"L">>, transport |-> <<"u">>,
       supports_udp |-> TRUE, supports_mcp |-> FALSE, is_active |-> e[2],
       is_preferred |-> FALSE] :
      e \in { <<EmptyString, FALSE>>, <<<<"a">>, FALSE>>, <<<<"a", "b">>, TRUE>>,
              <<<<"b">>, FALSE>> } }

RECURSIVE ListsOver(_, _)
ListsOver(inputs, n) ==
    IF n = 0 THEN { <<>> }
    ELSE LET shorter == ListsOver(inputs, n - 1)
         IN  shorter \cup { Append(l, s) : l \in {x \in shorter : Len(x) = n - 1},
                                           s \in inputs }

SortListInputs == ListsOver(SortSessionInputs, MaxSortList)

NextSort ==
    \/ \E sessions \in SortListInputs : UpdateSessions(sessions)
    \/ \E session_id \in {<<"a">>, <<"a", "b">>, <<"b">>} : SetPreferredSession(session_id)

SpecSort == Init /\ [][NextSort]_vars

\* ---------------------------------------------------------- thread steps
\* the positions of a call at which its std::lock_guard holds mutex_: all
\* but the wait for the mutex
LockGuardCoversMutationOnly(pc) ==
    pc \notin {"idle", "lock", "serialize", "setstring", "persist", "done"}

LockGuardCovers(pc) == pc \notin {"idle", "lock"}

\* std::mutex::lock returns only while no thread holds the mutex
CanLockAlways == TRUE

CanLock == mutex_ = NoThread

\* one step of thread t: its call moves to next and the registry to the
\* given values; mutex_ is released when the call leaves the lock_guard scope
Run(t, next, profiles, sessions, preferred_session_id, st) ==
    /\ profiles_' = profiles
    /\ sessions_' = sessions
    /\ preferred_session_id_' = preferred_session_id
    /\ settings' = st
    /\ call' = [call EXCEPT ![t] = next]
    /\ mutex_' = IF LockGuardCovers(next.pc) THEN t
                 ELSE IF mutex_ = t THEN NoThread ELSE mutex_
    /\ committed' = IF mutex_ = t /\ ~LockGuardCovers(next.pc)
                    THEN <<profiles, sessions, preferred_session_id>> ELSE committed

\* a step inside a call: no call returns
Step(t, next, profiles, sessions, preferred_session_id, st) ==
    /\ Run(t, next, profiles, sessions, preferred_session_id, st)
    /\ UNCHANGED last

\* a step that changes only the call of thread t
Move(t, next) == Step(t, next, profiles_, sessions_, preferred_session_id_, settings)

\* the calls the threads make
ThreadProfileInputs ==
    { profile \in ProfileInputs :
        <<profile.mac_address, profile.device_id, profile.label>> \in
            { <<<<"a", ":", "b">>, <<"d">>, EmptyString>>,
              <<EmptyString, <<"e">>, <<"L", NUL, "x">>>> } }

ThreadSessionListInputs ==
    { sessions \in SessionListInputs :
        /\ Len(sessions) \in {1, 2}
        /\ \A i \in 1..Len(sessions) : sessions[i].device_id = <<"d">> \/ sessions[i].is_active
        /\ sessions[1].session_id = <<"b">> /\ ~sessions[1].is_active
        /\ Len(sessions) = 2 => (sessions[2].session_id = <<"a">> /\ sessions[2].is_active) }

ThreadCalls ==
    { [op |-> "AddOrUpdateProfile", arg |-> profile] : profile \in ThreadProfileInputs }
    \cup { [op |-> "RemoveProfileByMac", arg |-> <<"A", "B">>],
           [op |-> "RemoveProfileById", arg |-> <<"e">>],
           [op |-> "GetProfiles", arg |-> <<>>],
           [op |-> "GetSessions", arg |-> <<>>],
           [op |-> "GetActiveSession", arg |-> <<>>],
           [op |-> "FindSession", arg |-> <<"a">>] }
    \cup { [op |-> "UpdateSessions", arg |-> sessions] : sessions \in ThreadSessionListInputs }
    \cup { [op |-> "SetPreferredSession", arg |-> id] : id \in {<<"a">>, <<"b">>} }

\* the thread calls the operation and waits for the mutex; began_mid records
\* that another call was then between two of its updates of the registry
Begin(t, op, arg) ==
    /\ call[t] = Idle
    /\ Move(t, [op |-> op, arg |-> arg, pc |-> "lock", loc |-> <<>>, ret |-> <<>>,
                began_mid |-> <<profiles_, sessions_, preferred_session_id_>> # committed])

\* std::lock_guard<std::mutex> lock(mutex_)
Lock(t) ==
    /\ call[t].pc = "lock"
    /\ CanLock
    /\ Move(t, [call[t] EXCEPT !.pc = "body"])

\* AddOrUpdateProfile: find_if and the assignment or push_back
AddBody(t) ==
    /\ call[t].op = "AddOrUpdateProfile" /\ call[t].pc = "body"
    /\ Step(t, [call[t] EXCEPT !.pc = "serialize"], Upsert(profiles_, call[t].arg),
            sessions_, preferred_session_id_, settings)

\* RemoveProfileByMac, RemoveProfileById: the erase and the size test
RemoveBody(t) ==
    /\ call[t].op \in {"RemoveProfileByMac", "RemoveProfileById"} /\ call[t].pc = "body"
    /\ LET erased == IF call[t].op = "RemoveProfileByMac"
                     THEN RemoveByMac(profiles_, call[t].arg)
                     ELSE RemoveById(profiles_, call[t].arg)
       IN  IF Len(erased) = Len(profiles_)
           THEN Move(t, [call[t] EXCEPT !.pc = "done", !.ret = FALSE])
           ELSE Step(t, [call[t] EXCEPT !.pc = "serialize"], erased,
                     sessions_, preferred_session_id_, settings)

\* PersistProfilesLocked: the JSON text is printed from profiles_ ...
Serialize(t) ==
    /\ call[t].pc = "serialize"
    /\ Move(t, [call[t] EXCEPT !.pc = "setstring",
                               !.loc = PersistProfilesLocked(settings, profiles_).profiles])

\* ... and then written with Settings::SetString
SetString(t) ==
    /\ call[t].pc = "setstring"
    /\ Step(t, [call[t] EXCEPT !.pc = "done", !.ret = TRUE], profiles_, sessions_,
            preferred_session_id_, [settings EXCEPT !.profiles = call[t].loc])

\* UpdateSessions: sessions_.clear()
UpdateClear(t) ==
    /\ call[t].op = "UpdateSessions" /\ call[t].pc = "body"
    /\ Step(t, [call[t] EXCEPT !.pc = "emplace",
                               !.loc = [i |-> 1, detected_active |-> EmptyString]],
            profiles_, clear(sessions_), preferred_session_id_, settings)

\* UpdateSessions: one iteration of the loop over the list, or its end
UpdateEmplace(t) ==
    /\ call[t].pc = "emplace"
    /\ LET i == call[t].loc.i
       IN  IF i > Len(call[t].arg)
           THEN Move(t, [call[t] EXCEPT !.pc = "validate"])
           ELSE LET one == Ingest(<<call[t].arg[i]>>, sessions_, call[t].loc.detected_active)
                IN  Step(t, [call[t] EXCEPT !.loc = [i |-> i + 1,
                                                     detected_active |-> one.detected_active]],
                         profiles_, one.sessions_, preferred_session_id_, settings)

\* UpdateSessions: the validity check of the preferred id
UpdateValidate(t) ==
    /\ call[t].pc = "validate"
    /\ LET validated == ValidatePreferred(preferred_session_id_, sessions_)
       IN  IF validated # preferred_session_id_
           THEN Step(t, [call[t] EXCEPT !.pc = "persist_cleared"], profiles_, sessions_,
                     validated, settings)
           ELSE Move(t, [call[t] EXCEPT !.pc = "select"])

UpdatePersistCleared(t) ==
    /\ call[t].pc = "persist_cleared"
    /\ Step(t, [call[t] EXCEPT !.pc = "select"], profiles_, sessions_, preferred_session_id_,
            PersistPreferredSessionLocked(settings, preferred_session_id_))

\* UpdateSessions: the selection for an empty preferred id
UpdateSelect(t) ==
    /\ call[t].pc = "select"
    /\ IF preferred_session_id_ = EmptyString
       THEN LET selected == SelectPreferred(call[t].loc.detected_active, call[t].arg)
            IN  Step(t, [call[t] EXCEPT !.pc = IF selected # EmptyString
                                               THEN "persist_selected" ELSE "flags"],
                     profiles_, sessions_, selected, settings)
       ELSE Move(t, [call[t] EXCEPT !.pc = "flags"])

UpdatePersistSelected(t) ==
    /\ call[t].pc = "persist_selected"
    /\ Step(t, [call[t] EXCEPT !.pc = "flags"], profiles_, sessions_, preferred_session_id_,
            PersistPreferredSessionLocked(settings, preferred_session_id_))

\* SetPreferredSession: the lookup and the assignment
SetPreferredBody(t) ==
    /\ call[t].op = "SetPreferredSession" /\ call[t].pc = "body"
    /\ IF call[t].arg \notin DOMAIN sessions_
       THEN Move(t, [call[t] EXCEPT !.pc = "done", !.ret = FALSE])
       ELSE Step(t, [call[t] EXCEPT !.pc = "flags"], profiles_, sessions_, call[t].arg,
                 settings)

\* UpdateSessions, SetPreferredSession: the loop that recomputes is_preferred
RecomputeFlags(t) ==
    /\ call[t].pc = "flags"
    /\ Step(t, [call[t] EXCEPT !.pc = IF call[t].op = "UpdateSessions"
                                      THEN "done" ELSE "persist"],
            profiles_, RecomputePreferred(sessions_, preferred_session_id_),
            preferred_session_id_, settings)

\* SetPreferredSession: PersistPreferredSessionLocked
SetPreferredPersist(t) ==
    /\ call[t].pc = "persist"
    /\ Step(t, [call[t] EXCEPT !.pc = "done", !.ret = TRUE], profiles_, sessions_,
            preferred_session_id_,
            PersistPreferredSessionLocked(settings, preferred_session_id_))

\* GetProfiles, GetSessions, GetActiveSession, FindSession: the snapshot
Read(t) ==
    /\ call[t].pc = "body"
    /\ \/ /\ call[t].op = "GetProfiles"
          /\ Move(t, [call[t] EXCEPT !.pc = "done", !.ret = GetProfiles])
       \/ /\ call[t].op = "GetSessions"
          /\ Move(t, [call[t] EXCEPT !.pc = "done", !.ret = GetSessions])
       \/ /\ call[t].op = "GetActiveSession"
          /\ \E result \in GetActiveSession :
                 Move(t, [call[t] EXCEPT !.pc = "done", !.ret = result])
       \/ /\ call[t].op = "FindSession"
          /\ Move(t, [call[t] EXCEPT !.pc = "done", !.ret = FindSession(call[t].arg)])

\* the call returns: the lock_guard is destroyed
Return(t) ==
    /\ call[t].pc = "done"
    /\ Run(t, Idle, profiles_, sessions_, preferred_session_id_, settings)
    /\ last' = [op |-> call[t].op, began_mid |-> call[t].began_mid]

NextThreads ==
    \E t \in Threads :
        \/ \E c \in ThreadCalls : Begin(t, c.op, c.arg)
        \/ Lock(t)
        \/ AddBody(t)
        \/ RemoveBody(t)
        \/ Serialize(t)
        \/ SetString(t)
        \/ UpdateClear(t)
        \/ UpdateEmplace(t)
        \/ UpdateValidate(t)
        \/ UpdatePersistCleared(t)
        \/ UpdateSelect(t)
        \/ UpdatePersistSelected(t)
        \/ SetPreferredBody(t)
        \/ RecomputeFlags(t)
        \/ SetPreferredPersist(t)
        \/ Read(t)
        \/ Return(t)

SpecThreads == Init /\ [][NextThreads]_vars

Next == NextProfiles \/ NextSessions

Spec == Init /\ [][Next]_vars

\* ================================================================ claims
Range(list) == { list[i] : i \in 1..Len(list) }
Count(list, e) == Cardinality({ i \in 1..Len(list) : list[i] = e })

\* the non-empty session ids occurring in a submitted list
SubmittedIds(sessions) == { sessions[i].session_id : i \in 1..Len(sessions) } \ {EmptyString}

\* the fields of a session a caller supplies and the registry keeps as given
GivenFields(info) ==
    <<info.device_id, info.label, info.transport, info.supports_udp, info.supports_mcp,
      info.is_active>>

\* C1: starting from the empty registry, no two stored profiles have the
\* same non-empty normalized MAC address.
C1_UniqueMac ==
    \A i, j \in 1..Len(profiles_) :
        (i # j /\ profiles_[i].mac_address # EmptyString)
            => profiles_[i].mac_address # profiles_[j].mac_address

\* C2: every stored session is flagged preferred exactly when its id is the
\* preferred session id; so at most one is flagged, and none when the
\* preferred id is empty.
C2_PreferredFlagDerived ==
    /\ \A id \in DOMAIN sessions_ :
           sessions_[id].is_preferred = (sessions_[id].session_id = preferred_session_id_)
    /\ Cardinality({ id \in DOMAIN sessions_ : sessions_[id].is_preferred }) <= 1
    /\ preferred_session_id_ = EmptyString
           => \A id \in DOMAIN sessions_ : ~sessions_[id].is_preferred

\* C2 witness: a submitted entry carried is_preferred = TRUE although its id
\* is not the preferred one, and another carried FALSE although its id is.
C2_Witness ==
    /\ last.op = "UpdateSessions"
    /\ \E i \in 1..Len(last.arg) :
           /\ last.arg[i].is_preferred
           /\ last.arg[i].session_id \in DOMAIN sessions_
           /\ last.arg[i].session_id # preferred_session_id_
    /\ \E i \in 1..Len(last.arg) :
           /\ ~last.arg[i].is_preferred
           /\ last.arg[i].session_id = preferred_session_id_

\* C3: after UpdateSessions the preferred id is empty or the id of a stored
\* session, and a preferred id that was not in the submitted list has not
\* been kept.
C3_NoDanglingPreferred ==
    last.op = "UpdateSessions" =>
        /\ preferred_session_id_ = EmptyString \/ preferred_session_id_ \in DOMAIN sessions_
        /\ (last.before # EmptyString /\ last.before \notin SubmittedIds(last.arg))
               => preferred_session_id_ # last.before

\* C3 witness: the preferred id held before the call was stale and another
\* id was derived in the same call.
C3_Witness ==
    /\ last.op = "UpdateSessions"
    /\ last.before # EmptyString
    /\ last.before \notin SubmittedIds(last.arg)
    /\ preferred_session_id_ # EmptyString
    /\ preferred_session_id_ \in DOMAIN sessions_

\* the id the auto-selection rule names for a submitted list
ActiveEntries(sessions) ==
    { i \in 1..Len(sessions) : sessions[i].is_active /\ sessions[i].session_id # EmptyString }

ExpectedPreferred(sessions) ==
    IF ActiveEntries(sessions) # {}
    THEN sessions[CHOOSE i \in ActiveEntries(sessions) :
                      \A j \in ActiveEntries(sessions) : i <= j].session_id
    ELSE IF sessions # <<>> THEN sessions[1].session_id
    ELSE EmptyString

\* UpdateSessions ran with no valid preferred id: empty, or stale and cleared
RanWithoutValidPreferred ==
    /\ last.op = "UpdateSessions"
    /\ last.before = EmptyString \/ last.before \notin DOMAIN sessions_

\* GetActiveSession returns the session whose id is the preferred id, flagged
ActiveIsPreferred ==
    \A result \in GetActiveSession :
        /\ result # nullopt
        /\ \A info \in result :
               info.session_id = preferred_session_id_ /\ info.is_preferred

\* C4 as stated: the rule names the new preferred id and, whenever sessions
\* are stored, GetActiveSession returns the session with that id, flagged.
C4_AsStated ==
    RanWithoutValidPreferred =>
        /\ preferred_session_id_ = ExpectedPreferred(last.arg)
        /\ sessions_ # EmptyMap => ActiveIsPreferred

\* C4 amended: the rule names the new preferred id and, when that id is not
\* empty, GetActiveSession returns the session with that id, flagged.
C4_AutoSelection ==
    RanWithoutValidPreferred =>
        /\ preferred_session_id_ = ExpectedPreferred(last.arg)
        /\ preferred_session_id_ # EmptyString => ActiveIsPreferred

\* C4 witness: [A(active = false), B(active = true)] with no usable prior
\* preference selects B.
C4_Witness ==
    /\ RanWithoutValidPreferred
    /\ Len(last.arg) >= 2
    /\ last.arg[1].session_id # EmptyString
    /\ ~last.arg[1].is_active
    /\ last.arg[2].is_active
    /\ last.arg[2].session_id \notin {EmptyString, last.arg[1].session_id}
    /\ preferred_session_id_ = last.arg[2].session_id
    /\ ActiveIsPreferred

\* C5: SetPreferredSession with an id that is not a key of the session map
\* returns false and changes neither the preferred id, the sessions (flags
\* included) nor the persisted values.
C5_UnknownIdRejected ==
    [][(last'.op = "SetPreferredSession" /\ last'.arg \notin DOMAIN sessions_)
          => /\ last'.ret = FALSE
             /\ UNCHANGED <<preferred_session_id_, sessions_, settings>>]_vars

\* C5 witness: an unknown non-empty id was refused while a preferred session
\* was set and flagged.
C5_Witness ==
    /\ last.op = "SetPreferredSession"
    /\ last.ret = FALSE
    /\ last.arg # EmptyString
    /\ preferred_session_id_ \in DOMAIN sessions_
    /\ sessions_[preferred_session_id_].is_preferred
    /\ settings.preferred_session = PlainString(preferred_session_id_)

\* the profile has a key AddOrUpdateProfile can match on
HasKey(profile) ==
    NormalizeMacAddress(profile.mac_address) # EmptyString \/ profile.device_id # EmptyString

\* C6 as stated: the second of two successive AddOrUpdateProfile(p) calls
\* leaves the list of the first unchanged, with exactly one entry equal to
\* normalized p.
C6_AsStated ==
    [][(last'.op = "AddOrUpdateProfile" /\ last'.again)
          => /\ profiles_' = profiles_
             /\ Count(profiles_', NormalizeProfile(last'.arg)) = 1]_vars

\* C6 amended: for a profile p with a non-empty normalized MAC or device_id,
\* the second of two successive AddOrUpdateProfile(p) calls leaves the list
\* of the first unchanged, and that list contains normalized p.
C6_UpsertIdempotent ==
    [][(last'.op = "AddOrUpdateProfile" /\ last'.again /\ HasKey(last'.arg))
          => /\ profiles_' = profiles_
             /\ NormalizeProfile(last'.arg) \in Range(profiles_')]_vars

\* C6 witness: a keyed profile was upserted twice in succession next to
\* another stored profile.
C6_Witness ==
    /\ last.op = "AddOrUpdateProfile"
    /\ last.again
    /\ HasKey(last.arg)
    /\ Len(profiles_) = 2
    /\ Count(profiles_, NormalizeProfile(last.arg)) = 1

\* C7: reloading the profile list from the persisted "profiles" value
\* reproduces the in-memory list: same profiles, same order, every field.
C7_RoundTrip == LoadProfilesLocked(settings) = profiles_

\* C8: RemoveProfileByMac(p.mac_address) right after AddOrUpdateProfile(p)
\* returns true, GetProfileByMac(p.mac_address) is then absent, and the
\* same remove call again returns false (it erases nothing).
C8_RemoveAfterAdd ==
    (last.op = "RemoveProfileByMac" /\ last.after_add) =>
        /\ last.ret = TRUE
        /\ GetProfileByMac(last.arg) = nullopt
        /\ Len(RemoveByMac(profiles_, last.arg)) = Len(profiles_)

\* C8 witness: the MAC was given with separators and in lower case, and
\* another profile stays stored.
C8_Witness ==
    /\ last.op = "RemoveProfileByMac"
    /\ last.after_add
    /\ last.arg # NormalizeMac(last.arg)
    /\ NormalizeMac(last.arg) # EmptyString
    /\ last.ret = TRUE
    /\ Len(profiles_) >= 1

\* C9: after UpdateSessions(list) the ids GetSessions and FindSession expose
\* are exactly the non-empty session ids of list.
C9_SessionsReplaced ==
    last.op = "UpdateSessions" =>
        /\ { GetSessions[i].session_id : i \in 1..Len(GetSessions) } = SubmittedIds(last.arg)
        /\ Len(GetSessions) = Cardinality(SubmittedIds(last.arg))
        /\ \A id \in SessionIdInputs \cup last.before_ids :
               (FindSession(id) # nullopt) <=> (id \in SubmittedIds(last.arg))

\* C9 witness: a session stored before the call was not resubmitted and is
\* gone, while the submitted ones are stored.
C9_Witness ==
    /\ last.op = "UpdateSessions"
    /\ last.before_ids \ SubmittedIds(last.arg) # {}
    /\ sessions_ # EmptyMap
    /\ \A id \in last.before_ids \ SubmittedIds(last.arg) : FindSession(id) = nullopt

\* the entries of a submitted list that carry the id
EntriesWithId(sessions, id) == { i \in 1..Len(sessions) : sessions[i].session_id = id }

\* C10 as stated: an id submitted several times is stored with the fields of
\* its last entry.
C10_AsStated ==
    last.op = "UpdateSessions" =>
        \A id \in SubmittedIds(last.arg) :
            Cardinality(EntriesWithId(last.arg, id)) >= 2 =>
                GivenFields(sessions_[id]) =
                    GivenFields(last.arg[CHOOSE i \in EntriesWithId(last.arg, id) :
                                    \A j \in EntriesWithId(last.arg, id) : j <= i])

\* C10 amended: an id submitted several times is stored with the fields of
\* its first entry.
C10_FirstDuplicateWins ==
    last.op = "UpdateSessions" =>
        \A id \in SubmittedIds(last.arg) :
            Cardinality(EntriesWithId(last.arg, id)) >= 2 =>
                GivenFields(sessions_[id]) =
                    GivenFields(last.arg[CHOOSE i \in EntriesWithId(last.arg, id) :
                                    \A j \in EntriesWithId(last.arg, id) : i <= j])

\* C10 witness: two entries with the same id and different fields.
C10_Witness ==
    /\ last.op = "UpdateSessions"
    /\ \E i, j \in 1..Len(last.arg) :
           /\ i < j
           /\ last.arg[i].session_id = last.arg[j].session_id
           /\ last.arg[i].session_id # EmptyString
           /\ GivenFields(last.arg[i]) # GivenFields(last.arg[j])
           /\ GivenFields(sessions_[last.arg[i].session_id]) = GivenFields(last.arg[i])

\* the stored profiles whose MAC address is mac
ProfilesWithMac(profiles, mac) == { i \in 1..Len(profiles) : profiles[i].mac_address = mac }

\* two successive AddOrUpdateProfile calls gave the same non-empty MAC in
\* two spellings
RespelledMacAdded ==
    /\ last.op = "AddOrUpdateProfile"
    /\ last'.op = "AddOrUpdateProfile"
    /\ last.arg.mac_address # last'.arg.mac_address
    /\ NormalizeMac(last.arg.mac_address) = NormalizeMac(last'.arg.mac_address)
    /\ NormalizeMac(last'.arg.mac_address) # EmptyString

\* C14: after AddOrUpdateProfile with one spelling of a MAC and then with
\* another, a single stored profile has that MAC, and GetProfileByMac and
\* RemoveProfileByMac with either spelling find it.
C14_SpellingsShareProfile ==
    [][RespelledMacAdded =>
          LET mac == NormalizeMac(last'.arg.mac_address)
          IN  /\ Cardinality(ProfilesWithMac(profiles_', mac)) = 1
              /\ \A spelling \in {last.arg.mac_address, last'.arg.mac_address} :
                     /\ ProfilesWithMac(profiles_', NormalizeMac(spelling)) # {}
                     /\ Len(RemoveByMac(profiles_', spelling)) < Len(profiles_')]_vars

\* C15: the persisted "preferred_session" value, an absent key read as the
\* empty string, equals the preferred session id; UpdateSessions erases the
\* key exactly when it clears a stale preferred id, SetPreferredSession never.
C15_PreferredPersisted ==
    /\ LoadPreferredSession(settings) = preferred_session_id_
    /\ (preferred_session_id_ = EmptyString) <=> (settings.preferred_session = Absent)
    /\ last.op = "UpdateSessions" =>
           ((\E i \in 1..Len(last.writes) : last.writes[i] = EraseKeyCall("preferred_session"))
               <=> (last.before # EmptyString /\ last.before \notin SubmittedIds(last.arg)))
    /\ last.op = "SetPreferredSession" =>
           \A i \in 1..Len(last.writes) : last.writes[i] # EraseKeyCall("preferred_session")

\* C15 witness: a stale preferred id was cleared with nothing to select, and
\* the key is gone.
C15_Witness ==
    /\ last.op = "UpdateSessions"
    /\ last.before # EmptyString
    /\ preferred_session_id_ = EmptyString
    /\ last.writes = <<EraseKeyCall("preferred_session")>>
    /\ settings.preferred_session = Absent

\* C16: no stored session has an empty session_id; SetPreferredSession("")
\* returns false, and SetPreferredSession neither leaves the preferred id
\* empty when it succeeds nor erases the persisted key.
C16_NoEmptySessionId ==
    /\ \A id \in DOMAIN sessions_ : id # EmptyString /\ sessions_[id].session_id # EmptyString
    /\ last.op = "SetPreferredSession" =>
           /\ last.arg = EmptyString => last.ret = FALSE
           /\ last.ret = TRUE => preferred_session_id_ # EmptyString
           /\ \A i \in 1..Len(last.writes) : last.writes[i].fn # "EraseKey"

\* C16 witness: SetPreferredSession("") was refused while sessions are stored.
C16_Witness ==
    /\ last.op = "SetPreferredSession"
    /\ last.arg = EmptyString
    /\ last.ret = FALSE
    /\ sessions_ # EmptyMap

\* C17: a preferred id that is in the submitted list is kept by
\* UpdateSessions, which then makes no call on the persistence store.
C17_ResubmittedPreferredKept ==
    (last.op = "UpdateSessions" /\ last.before # EmptyString
        /\ last.before \in SubmittedIds(last.arg)) =>
        /\ preferred_session_id_ = last.before
        /\ last.writes = <<>>
        /\ settings.preferred_session = PlainString(last.before)

\* C17 witness: the kept preferred session was submitted inactive next to an
\* active one.
C17_Witness ==
    /\ last.op = "UpdateSessions"
    /\ last.before # EmptyString
    /\ preferred_session_id_ = last.before
    /\ last.before \in DOMAIN sessions_
    /\ ~sessions_[last.before].is_active
    /\ \E id \in DOMAIN sessions_ : id # last.before /\ sessions_[id].is_active

\* exactly one stored session is flagged preferred
OneFlagged == Cardinality({ id \in DOMAIN sessions_ : sessions_[id].is_preferred }) = 1

\* C18 as stated: when UpdateSessions leaves a session in the map, the
\* preferred id is non-empty and exactly one stored session is flagged.
C18_AsStated ==
    (last.op = "UpdateSessions" /\ sessions_ # EmptyMap) =>
        preferred_session_id_ # EmptyString /\ OneFlagged

\* the call had nothing to select from: no valid prior preference, no active
\* entry with an id, and a first entry whose session_id is empty
NothingSelectable ==
    /\ RanWithoutValidPreferred
    /\ ActiveEntries(last.arg) = {}
    /\ last.arg[1].session_id = EmptyString

\* C18 amended: when UpdateSessions leaves a session in the map, the
\* preferred id is non-empty and exactly one stored session is flagged,
\* unless the call had nothing to select from; then the preferred id is
\* empty and no stored session is flagged.
C18_PreferredWheneverSelectable ==
    (last.op = "UpdateSessions" /\ sessions_ # EmptyMap) =>
        IF NothingSelectable
        THEN /\ preferred_session_id_ = EmptyString
             /\ \A id \in DOMAIN sessions_ : ~sessions_[id].is_preferred
        ELSE preferred_session_id_ # EmptyString /\ OneFlagged

\* C18 witness: the list began with an entry without id, and a preferred
\* session was derived all the same.
C18_Witness ==
    /\ RanWithoutValidPreferred
    /\ last.arg # <<>>
    /\ last.arg[1].session_id = EmptyString
    /\ sessions_ # EmptyMap
    /\ preferred_session_id_ # EmptyString
    /\ OneFlagged

\* AddOrUpdateProfile(p) with a non-empty device_id was the latest call
AddedWithDeviceId == last.op = "AddOrUpdateProfile" /\ last.arg.device_id # EmptyString

\* C19 as stated: right after AddOrUpdateProfile(p), GetProfileById of p's
\* device_id returns normalized p.
C19_AsStated ==
    AddedWithDeviceId => GetProfileById(last.arg.device_id) = Some(NormalizeProfile(last.arg))

\* C19 amended: right after AddOrUpdateProfile(p), normalized p is stored and
\* GetProfileById of p's device_id returns the first stored profile with that
\* device_id, which is normalized p when no profile stored ahead of it has
\* the same device_id.
C19_FirstWithDeviceId ==
    AddedWithDeviceId =>
        LET written == NormalizeProfile(last.arg)
            same == { i \in 1..Len(profiles_) : profiles_[i].device_id = written.device_id }
            first == CHOOSE i \in same : \A j \in same : i <= j
        IN  /\ written \in Range(profiles_)
            /\ GetProfileById(written.device_id) = Some(profiles_[first])
            /\ GetProfileById(written.device_id) = Some(written)
                   \/ \E i, j \in same : i < j /\ profiles_[j] = written
                                         /\ profiles_[i] # written

\* C19 witness: the written profile is returned although a second profile
\* with the same device_id is stored behind it.
C19_Witness ==
    /\ AddedWithDeviceId
    /\ GetProfileById(last.arg.device_id) = Some(NormalizeProfile(last.arg))
    /\ Cardinality({ i \in 1..Len(profiles_) :
                       profiles_[i].device_id = last.arg.device_id }) = 2

\* the latest call made SetString on the key
WroteKey(record, key) ==
    \E i \in 1..Len(record.writes) : record.writes[i] = SetStringCall(key)

\* C12 as stated: a call that leaves the profile list unchanged does not
\* write "profiles", and a call that leaves the preferred session id
\* unchanged does not write "preferred_session".
C12_AsStated ==
    [][/\ profiles_' = profiles_ => ~WroteKey(last', "profiles")
       /\ preferred_session_id_' = preferred_session_id_
              => ~WroteKey(last', "preferred_session")]_vars

\* C12 amended: a call that leaves the profile list unchanged writes
\* "profiles" only if it is AddOrUpdateProfile, a call that leaves the
\* preferred session id unchanged writes "preferred_session" only if it is a
\* SetPreferredSession that returned true, and a call that returned false
\* makes no call on the persistence store.
C12_WritesOnlyOnSuccess ==
    [][/\ (profiles_' = profiles_ /\ WroteKey(last', "profiles"))
              => last'.op = "AddOrUpdateProfile"
       /\ (preferred_session_id_' = preferred_session_id_
              /\ WroteKey(last', "preferred_session"))
              => (last'.op = "SetPreferredSession" /\ last'.ret = TRUE)
       /\ last'.ret = FALSE => last'.writes = <<>>]_vars

\* C12 witness: with profiles and a preferred session stored, a remove call
\* that matched nothing made no write.
C12_Witness ==
    /\ last.op \in {"RemoveProfileByMac", "RemoveProfileById"}
    /\ last.ret = FALSE
    /\ last.writes = <<>>
    /\ profiles_ # <<>>
    /\ preferred_session_id_ # EmptyString
    /\ settings.profiles # Absent

\* lhs comes before rhs in the order GetSessions promises
ComesBefore(lhs, rhs) ==
    LET rank(info) == (IF info.is_preferred THEN 0 ELSE 2) + (IF info.is_active THEN 0 ELSE 1)
    IN  \/ rank(lhs) < rank(rhs)
        \/ rank(lhs) = rank(rhs) /\ StringLess(lhs.session_id, rhs.session_id)

\* C13: GetSessions returns every stored session exactly once, the preferred
\* one first, then the active before the inactive, then by ascending
\* session_id; the sorted vector is the same for every iteration order of
\* the map.
C13_SortedSnapshot ==
    /\ Len(GetSessions) = Cardinality(DOMAIN sessions_)
    /\ { GetSessions[i] : i \in 1..Len(GetSessions) } = { sessions_[id] : id \in DOMAIN sessions_ }
    /\ \A i, j \in 1..Len(GetSessions) : i < j => ComesBefore(GetSessions[i], GetSessions[j])
    /\ \A vector \in IterationOrders : SortVector(vector) = GetSessions

\* C13 witness: the preferred, an active and an inactive session are stored
\* and come out in that order, against the order of their ids.
C13_Witness ==
    /\ Len(GetSessions) = 3
    /\ GetSessions[1].is_preferred /\ ~GetSessions[1].is_active
    /\ GetSessions[2].is_active
    /\ ~GetSessions[3].is_active
    /\ StringLess(GetSessions[3].session_id, GetSessions[2].session_id)
    /\ StringLess(GetSessions[2].session_id, GetSessions[1].session_id)

\* the threads inside an operation body, and the calls that only read
InBody == { t \in Threads : call[t].pc \notin {"idle", "lock"} }

Readers == { "GetProfiles", "GetSessions", "GetActiveSession", "FindSession" }

Registry == <<profiles_, sessions_, preferred_session_id_>>

\* a reader that is about to return
Returning(t) == call[t].op \in Readers /\ call[t].pc = "done"

\* what the reader may return from the registry as the last call left it
Snapshot(t) ==
    CASE call[t].op = "GetProfiles" -> call[t].ret = GetProfiles
      [] call[t].op = "GetSessions" ->
             /\ call[t].ret = GetSessions
             /\ \A i \in 1..Len(call[t].ret) :
                    call[t].ret[i].is_preferred
                        <=> call[t].ret[i].session_id = committed[3]
      [] call[t].op = "GetActiveSession" ->
             /\ call[t].ret \in GetActiveSession
             /\ \A session \in call[t].ret :
                    session.is_preferred <=> session.session_id = committed[3]
      [] call[t].op = "FindSession" ->
             /\ call[t].ret = FindSession(call[t].arg)
             /\ \A session \in call[t].ret :
                    session.is_preferred <=> session.session_id = committed[3]

\* C11: operations are atomic critical sections under the one registry lock:
\* at most one thread is inside an operation body at a time, and a reader
\* that returns has read the registry exactly as the last completed call left
\* it, with is_preferred flags that agree with the preferred id, never a state
\* in the middle of a running UpdateSessions, SetPreferredSession or profile
\* mutation.
C11_AtomicCriticalSections ==
    /\ Cardinality(InBody) <= 1
    /\ \A t \in Threads : Returning(t) => (Registry = committed /\ Snapshot(t))

\* a reader called GetSessions while a mutation was between two of its
\* updates, waited, and is returning a non-empty snapshot
C11_Witness ==
    \E t \in Threads :
        /\ Returning(t)
        /\ call[t].op = "GetSessions"
        /\ call[t].began_mid
        /\ call[t].ret # <<>>

\* no call is between an in-memory update and the write that mirrors it
Quiescent == \A t \in Threads : call[t].pc \in {"idle", "lock"}

\* the stored "profiles" text is the one PersistProfilesLocked prints from the
\* list in memory; the key is absent only while the list was never written
ProfilesMirrored ==
    IF settings.profiles = Absent
    THEN profiles_ = <<>>
    ELSE settings.profiles = PersistProfilesLocked(settings, profiles_).profiles

PreferredMirrored == LoadPreferredSession(settings) = preferred_session_id_

\* C20: under any interleaving of threads calling the mutating operations,
\* the writes to the store follow the order of the in-memory updates: whenever
\* no call is running, in particular once all calls have returned, the stored
\* "profiles" value is the serialization of the profile list in memory and
\* the stored "preferred_session" value is the preferred id in memory.
C20_WriteThroughInOrder == Quiescent => (ProfilesMirrored /\ PreferredMirrored)

\* all calls have returned, the last of them an AddOrUpdateProfile that was
\* called while another mutation was between its update and its write; both
\* profiles and a preferred id were written
C20_Witness ==
    /\ \A t \in Threads : call[t] = Idle
    /\ last.op = "AddOrUpdateProfile"
    /\ last.began_mid
    /\ Len(profiles_) = 2
    /\ settings.profiles # Absent
    /\ preferred_session_id_ = <<"b">>

====
